---- MODULE Spec2Model ----
(***************************************************************************)
(* Model of text_to_speech.py: the WAV container synthesis                 *)
(* (parse_audio_mime_type, convert_to_wav) and the accumulation of the     *)
(* streamed audio chunks in generate_audio.                                *)
(*                                                                         *)
(* Strings are sequences of one-character strings, byte strings are        *)
(* sequences of integers in 0..255.  A call that can raise returns a       *)
(* record whose field exc names the exception, NoExc when there is none.   *)
(***************************************************************************)
EXTENDS Integers, Sequences, FiniteSets, TLC

\* ------------------------------------------------------------------ bounds

\* Longest payload handed to convert_to_wav.
MaxLen == 2
\* Most ';'-separated segments of a descriptor.
MaxSegs == 2
\* Most chunks of one stream.
MaxChunks == 3

\* ------------------------------------------------- Python's str operations

\* Python's None.
NoneVal == [none |-> TRUE]

\* The whitespace str.strip() and int() remove (those of the model's alphabet).
Whitespace == {" ", "\t"}

UpperSeq == <<"A","B","C","D","E","F","G","H","I","J","K","L","M",
              "N","O","P","Q","R","S","T","U","V","W","X","Y","Z">>
LowerSeq == <<"a","b","c","d","e","f","g","h","i","j","k","l","m",
              "n","o","p","q","r","s","t","u","v","w","x","y","z">>
DigitSeq == <<"0","1","2","3","4","5","6","7","8","9">>

IsDigit(c) == \E i \in 1..Len(DigitSeq) : DigitSeq[i] = c
DigitVal(c) == (CHOOSE i \in 1..Len(DigitSeq) : DigitSeq[i] = c) - 1

\* str.lower(), one character.
LowerChar(c) ==
  IF \E i \in 1..Len(UpperSeq) : UpperSeq[i] = c
  THEN LowerSeq[CHOOSE i \in 1..Len(UpperSeq) : UpperSeq[i] = c]
  ELSE c

\* str.lower()
Lower(s) == [i \in 1..Len(s) |-> LowerChar(s[i])]

\* str.strip(): leading and trailing whitespace removed.
Strip(s) ==
  LET keep == {i \in 1..Len(s) : s[i] \notin Whitespace}
  IN  IF keep = {} THEN <<>>
      ELSE LET lo == CHOOSE i \in keep : \A j \in keep : i <= j
               hi == CHOOSE i \in keep : \A j \in keep : j <= i
           IN  SubSeq(s, lo, hi)

\* str.startswith(p)
StartsWith(s, p) == Len(s) >= Len(p) /\ SubSeq(s, 1, Len(p)) = p

\* Index of the first occurrence of character c in s, 0 when there is none.
FirstIndex(s, c) ==
  LET at == {i \in 1..Len(s) : s[i] = c}
  IN  IF at = {} THEN 0 ELSE CHOOSE i \in at : \A j \in at : i <= j

\* str.split(sep): the pieces between the occurrences of the character sep.
RECURSIVE Split(_, _)
Split(s, sep) ==
  LET k == FirstIndex(s, sep)
  IN  IF k = 0 THEN <<s>>
      ELSE <<SubSeq(s, 1, k - 1)>> \o Split(SubSeq(s, k + 1, Len(s)), sep)

\* No exception.
NoExc == "none"

\* s.split(sep, 1)[1]: what follows the first sep; IndexError when s has no sep.
SplitOnceSecond(s, sep) ==
  LET k == FirstIndex(s, sep)
  IN  IF k = 0 THEN [exc |-> "IndexError", val |-> <<>>]
      ELSE [exc |-> NoExc, val |-> SubSeq(s, k + 1, Len(s))]

\* Value of a string of digits and single underscores between digits.
RECURSIVE DigitsValue(_, _)
DigitsValue(s, acc) ==
  IF s = <<>> THEN acc
  ELSE IF Head(s) = "_" THEN DigitsValue(Tail(s), acc)
  ELSE DigitsValue(Tail(s), acc * 10 + DigitVal(Head(s)))

\* The literals int() accepts after stripping and the sign: digits, with
\* single underscores only between two digits.
IsIntBody(s) ==
  /\ s # <<>>
  /\ \A i \in 1..Len(s) : IsDigit(s[i]) \/ s[i] = "_"
  /\ IsDigit(s[1])
  /\ IsDigit(s[Len(s)])
  /\ \A i \in 1..(Len(s) - 1) : ~(s[i] = "_" /\ s[i + 1] = "_")

\* int(s), base 10; ValueError when s is no integer literal.
PyInt(s) ==
  LET t    == Strip(s)
      sign == IF t # <<>> /\ t[1] \in {"+", "-"} THEN t[1] ELSE ""
      body == IF sign = "" THEN t ELSE Tail(t)
  IN  IF IsIntBody(body)
      THEN [exc |-> NoExc,
            val |-> IF sign = "-" THEN 0 - DigitsValue(body, 0)
                    ELSE DigitsValue(body, 0)]
      ELSE [exc |-> "ValueError", val |-> 0]

\* ------------------------------------------------- parse_audio_mime_type

DefaultBitsPerSample == 16
DefaultRate == 24000

RateEq == <<"r","a","t","e","=">>
AudioL == <<"a","u","d","i","o","/","L">>

\* Variant of IsRateParam: the key compared without lower().
IsRateParam_CaseSensitive(param) == StartsWith(param, RateEq)

\* param.lower().startswith("rate=")
IsRateParam(param) == StartsWith(Lower(param), RateEq)

\* param.startswith("audio/L")
IsBitsParam(param) == StartsWith(param, AudioL)

\* Variant of Caught: except IndexError alone.
Caught_IndexErrorOnly(exc) == exc = "IndexError"

\* The exceptions the two except clauses catch.
Caught(exc) == exc \in {"ValueError", "IndexError"}

\* The try block of a segment: int(param.split(sep, 1)[1]).
TryInt(param, sep) ==
  LET r == SplitOnceSecond(param, sep)
  IN  IF r.exc # NoExc THEN [exc |-> r.exc, val |-> 0] ELSE PyInt(r.val)

\* The body of the loop for one segment; exc is an exception that leaves it.
ParseStep(raw, bits, rate) ==
  LET param == Strip(raw)
  IN  IF IsRateParam(param)
      THEN LET v == TryInt(param, "=")
           IN  IF v.exc = NoExc THEN [exc |-> NoExc, bits |-> bits, rate |-> v.val]
               ELSE IF Caught(v.exc) THEN [exc |-> NoExc, bits |-> bits, rate |-> rate]
               ELSE [exc |-> v.exc, bits |-> bits, rate |-> rate]
      ELSE IF IsBitsParam(param)
      THEN LET v == TryInt(param, "L")
           IN  IF v.exc = NoExc THEN [exc |-> NoExc, bits |-> v.val, rate |-> rate]
               ELSE IF Caught(v.exc) THEN [exc |-> NoExc, bits |-> bits, rate |-> rate]
               ELSE [exc |-> v.exc, bits |-> bits, rate |-> rate]
      ELSE [exc |-> NoExc, bits |-> bits, rate |-> rate]

RECURSIVE ParseLoop(_, _, _)
ParseLoop(parts, bits, rate) ==
  IF parts = <<>>
  THEN [exc |-> NoExc, bits_per_sample |-> bits, rate |-> rate]
  ELSE LET s == ParseStep(Head(parts), bits, rate)
       IN  IF s.exc # NoExc
           THEN [exc |-> s.exc, bits_per_sample |-> s.bits, rate |-> s.rate]
           ELSE ParseLoop(Tail(parts), s.bits, s.rate)

parse_audio_mime_type(mime_type) ==
  ParseLoop(Split(mime_type, ";"), DefaultBitsPerSample, DefaultRate)

\* ------------------------------------------------------------ struct.pack

UShortMax == 65535

\* Variant of LittleEndian: the bytes in big-endian order (">" for "<").
LittleEndian_Big(v, n) == [i \in 1..n |-> (v \div (256 ^ (n - i))) % 256]

\* v as n little-endian bytes.
LittleEndian(v, n) == [i \in 1..n |-> (v \div (256 ^ (i - 1))) % 256]

\* struct.pack refuses a number outside its field: "H" holds 0..65535, "I"
\* holds 0..2^32-1 (stated on the two 16-bit halves).
FitsField(f) ==
  CASE f.fmt = "4s" -> TRUE
    [] f.fmt = "H"  -> 0 <= f.val /\ f.val <= UShortMax
    [] f.fmt = "I"  -> 0 <= f.val /\ f.val \div (UShortMax + 1) <= UShortMax

PackField(f) ==
  CASE f.fmt = "4s" -> f.val
    [] f.fmt = "H"  -> LittleEndian(f.val, 2)
    [] f.fmt = "I"  -> LittleEndian(f.val, 4)

RECURSIVE PackAll(_)
PackAll(fields) ==
  IF fields = <<>> THEN <<>>
  ELSE PackField(Head(fields)) \o PackAll(Tail(fields))

\* struct.pack("<...", fields); struct.error when a number does not fit.
struct_pack(fields) ==
  IF \A i \in 1..Len(fields) : FitsField(fields[i])
  THEN [exc |-> NoExc, bytes |-> PackAll(fields)]
  ELSE [exc |-> "struct.error", bytes |-> <<>>]

\* ---------------------------------------------------------- convert_to_wav

\* ASCII codes of the four chunk tags.
RIFF == <<82, 73, 70, 70>>
WAVE == <<87, 65, 86, 69>>
FMT  == <<102, 109, 116, 32>>
DATA == <<100, 97, 116, 97>>

\* Variant of NumChannels: stereo.
NumChannels_Stereo == 1 + 1

NumChannels == 1
Subchunk1Size == 16
AudioFormatPCM == 1
\* Variant of HeaderRest: the whole header counted in ChunkSize.
HeaderRest_WholeHeader == 36 + 8

\* The header's bytes after the ChunkSize field.
HeaderRest == 36

F(fmt, val) == [fmt |-> fmt, val |-> val]

\* Variant of BytesPerSample: rounded up.
BytesPerSample_RoundUp(bits_per_sample) == (bits_per_sample + 7) \div 8

\* bits_per_sample // 8
BytesPerSample(bits_per_sample) == bits_per_sample \div 8

\* The header convert_to_wav packs for a payload of data_size bytes.
WavHeader(bits_per_sample, sample_rate, data_size) ==
  LET num_channels     == NumChannels
      bytes_per_sample == BytesPerSample(bits_per_sample)
      block_align      == num_channels * bytes_per_sample
      byte_rate        == sample_rate * block_align
      chunk_size       == HeaderRest + data_size
  IN  struct_pack(<<
        F("4s", RIFF),
        F("I", chunk_size),
        F("4s", WAVE),
        F("4s", FMT),
        F("I", Subchunk1Size),
        F("H", AudioFormatPCM),
        F("H", num_channels),
        F("I", sample_rate),
        F("I", byte_rate),
        F("H", block_align),
        F("H", bits_per_sample),
        F("4s", DATA),
        F("I", data_size) >>)

\* Variant of WithPayload: the header alone is returned.
WithPayload_HeaderOnly(header, audio_data) ==
  IF header.exc # NoExc THEN [exc |-> header.exc, bytes |-> <<>>]
  ELSE [exc |-> NoExc, bytes |-> header.bytes]

\* return header + audio_data, unless struct.pack raised.
WithPayload(header, audio_data) ==
  IF header.exc # NoExc THEN [exc |-> header.exc, bytes |-> <<>>]
  ELSE [exc |-> NoExc, bytes |-> header.bytes \o audio_data]

\* convert_to_wav once the descriptor is parsed.
WavFrom(parameters, audio_data) ==
  IF parameters.exc # NoExc THEN [exc |-> parameters.exc, bytes |-> <<>>]
  ELSE WithPayload(WavHeader(parameters.bits_per_sample, parameters.rate,
                             Len(audio_data)),
                   audio_data)

convert_to_wav(audio_data, mime_type) ==
  WavFrom(parse_audio_mime_type(mime_type), audio_data)

\* ------------------------------------------------------------------ inputs

\* The bytes of the payloads.
PayloadBytes == {0, 255}

RECURSIVE SeqsUpTo(_, _)
SeqsUpTo(S, n) ==
  IF n = 0 THEN {<<>>}
  ELSE LET shorter == SeqsUpTo(S, n - 1)
       IN  shorter \cup {Append(s, x) : s \in {t \in shorter : Len(t) = n - 1}, x \in S}

Payloads == SeqsUpTo(PayloadBytes, MaxLen)

\* The segments descriptors are made of: well-formed ones, the keys in the
\* other case, padded ones, and values int() refuses or struct.pack refuses.
Segments ==
  { AudioL \o <<"1","6">>,
    AudioL \o <<"2","4">>,
    AudioL \o <<"1","2">>,
    AudioL,
    AudioL \o <<"7","0","0","0","0">>,
    <<"a","u","d","i","o","/","l","8">>,
    RateEq \o <<"4","8","0","0","0">>,
    RateEq \o <<"4","4","1","0","0">>,
    <<"R","a","t","E","=","8","0","0","0">>,
    <<" ">> \o RateEq \o <<" ","1","_","6","0","0","0","\t">>,
    RateEq,
    RateEq \o <<"4","x">>,
    RateEq \o <<"-","1">>,
    <<"g","a","r","b","a","g","e">>,
    <<>> }

RECURSIVE Join(_)
Join(segs) ==
  IF Len(segs) = 1 THEN segs[1]
  ELSE segs[1] \o <<";">> \o Join(Tail(segs))

Descriptors ==
  {Join(segs) : segs \in SeqsUpTo(Segments, MaxSegs) \ {<<>>}}

\* An Optional value: <<>> is None, <<x>> is x.  candidates and parts are
\* lists read at index 0 only: <<x>> is a list whose first element is x.
None == <<>>
Some(x) == <<x>>
The(opt) == opt[1]

\* The MIME types the chunks of a stream declare.
MimeL16  == AudioL \o <<"1","6",";","c","o","d","e","c","=","p","c","m",";">>
                   \o RateEq \o <<"2","4","0","0","0">>
MimeL24  == AudioL \o <<"2","4",";">> \o RateEq \o <<"4","8","0","0","0">>
MimeMpeg == <<"a","u","d","i","o","/","m","p","e","g">>
ChunkMimes == {MimeL16, MimeL24, MimeMpeg}

\* The bytes a chunk carries: none, empty, or one of two samples.
ChunkDatas == {None, Some(<<>>), Some(<<1>>), Some(<<2, 3>>)}

Blob(data, mime_type) == [data |-> data, mime_type |-> mime_type]
ChunkOf(content) == [candidates |-> Some([content |-> content])]

\* The shapes of a streamed response chunk.
Chunks ==
  { [candidates |-> None],
    ChunkOf(None),
    ChunkOf(Some([parts |-> None])),
    ChunkOf(Some([parts |-> Some([inline_data |-> None])])) }
  \cup
  { ChunkOf(Some([parts |-> Some([inline_data |-> Some(Blob(d, m))])])) :
      d \in ChunkDatas, m \in ChunkMimes }

WavExt == <<".","w","a","v">>
Mp3Ext == <<".","m","p","3">>

\* The output path handed to generate_audio: text_to_speech builds it from a
\* folder and a title, and ends it in ".wav".
OutputFile == <<"a">> \o WavExt \o <<"/","o">> \o WavExt

\* ------------------------------------------------------------ generate_audio

\* mimetypes.guess_extension: the whole string, lower-cased, looked up in the
\* table of known types; a type with parameters is not in it.
guess_extension(mime_type) ==
  IF Lower(mime_type) = MimeMpeg THEN Some(Mp3Ext)
  ELSE IF Lower(mime_type) = <<"a","u","d","i","o","/","x","-","w","a","v">>
  THEN Some(WavExt)
  ELSE None

\* str.replace(old, new): every occurrence, left to right.
RECURSIVE Replace(_, _, _)
Replace(s, old, new) ==
  IF s = <<>> THEN <<>>
  ELSE IF StartsWith(s, old)
  THEN new \o Replace(SubSeq(s, Len(old) + 1, Len(s)), old, new)
  ELSE <<Head(s)>> \o Replace(Tail(s), old, new)

\* The condition of the continue at the top of the loop body.
Skipped(c) ==
  \/ c.candidates = None
  \/ The(c.candidates).content = None
  \/ The(The(c.candidates).content).parts = None

\* chunk.candidates[0].content.parts[0].inline_data of a chunk not skipped.
InlineDataOf(c) == The(The(The(c.candidates).content).parts).inline_data

\* inline_data and inline_data.data: neither None nor empty.
HasData(c) ==
  /\ InlineDataOf(c) # None
  /\ The(InlineDataOf(c)).data # None
  /\ The(The(InlineDataOf(c)).data) # <<>>

\* The expression of line 236 on the last chunk: the exception it raises.
LastInlineData(c) ==
  IF c.candidates = None THEN [exc |-> "TypeError", val |-> None]
  ELSE IF The(c.candidates).content = None
  THEN [exc |-> "AttributeError", val |-> None]
  ELSE IF The(The(c.candidates).content).parts = None
  THEN [exc |-> "TypeError", val |-> None]
  ELSE [exc |-> NoExc, val |-> InlineDataOf(c)]

\* ------------------------------------------------------------------- state

VARIABLES
  in_mime,     \* the descriptor handed to the two functions
  in_audio,    \* the payload handed to convert_to_wav
  params,      \* what parse_audio_mime_type(in_mime) returned, NoneVal before
  wav,         \* what convert_to_wav(in_audio, in_mime) returned, NoneVal before
  received,    \* the chunks the stream has yielded so far, in order
  exhausted,   \* the stream ended without an exception
  chunk,       \* generate_audio's loop variable: None while unbound
  inline_data, \* generate_audio's inline_data: None while unbound
  audio_data,  \* generate_audio's accumulated bytes
  chunk_count, \* generate_audio's count of chunks with data
  output_file, \* generate_audio's output_file
  files,       \* the files save_binary_file wrote, in order
  ret,         \* generate_audio's return value: "running", "True", "False"
  caught       \* the exception the except clause caught, NoExc if none

wavVars == <<in_mime, in_audio, params, wav>>
genVars == <<received, exhausted, chunk, inline_data, audio_data, chunk_count,
             output_file, files, ret, caught>>
vars == <<wavVars, genVars>>

\* generate_audio before its loop.
GenStart ==
  /\ received = <<>>
  /\ exhausted = FALSE
  /\ chunk = None
  /\ inline_data = None
  /\ audio_data = <<>>
  /\ chunk_count = 0
  /\ files = <<>>
  /\ ret = "running"
  /\ caught = NoExc

\* Neither function called.
WavStart ==
  /\ params = NoneVal
  /\ wav = NoneVal

InitWav ==
  /\ in_mime \in Descriptors
  /\ in_audio \in Payloads
  /\ WavStart
  /\ GenStart
  /\ output_file = <<>>

CallParse ==
  /\ params = NoneVal
  /\ params' = parse_audio_mime_type(in_mime)
  /\ UNCHANGED <<in_mime, in_audio, wav, genVars>>

CallConvert ==
  /\ wav = NoneVal
  /\ wav' = convert_to_wav(in_audio, in_mime)
  /\ UNCHANGED <<in_mime, in_audio, params, genVars>>

NextWav == CallParse \/ CallConvert

SpecWav == InitWav /\ [][NextWav]_vars

Init ==
  /\ in_mime = <<>>
  /\ in_audio = <<>>
  /\ WavStart
  /\ GenStart
  /\ output_file = OutputFile

\* Variant of Accumulated: "=" for "+=".
Accumulated_Overwrite(audio, data) == data

\* audio_data += inline_data.data
Accumulated(audio, data) == audio \o data

\* One iteration of the loop over the stream, on chunk c.
ReceiveChunk(c) ==
  /\ ret = "running"
  /\ Len(received) < MaxChunks
  /\ received' = Append(received, c)
  /\ chunk' = Some(c)
  /\ IF ~Skipped(c) /\ HasData(c)
     THEN /\ inline_data' = InlineDataOf(c)
          /\ audio_data' = Accumulated(audio_data, The(The(InlineDataOf(c)).data))
          /\ chunk_count' = chunk_count + 1
     ELSE UNCHANGED <<inline_data, audio_data, chunk_count>>
  /\ UNCHANGED <<wavVars, exhausted, output_file, files, ret, caught>>

\* The client or the stream raises: the except clause returns False.
StreamRaises ==
  /\ ret = "running"
  /\ caught' = "StreamError"
  /\ ret' = "False"
  /\ UNCHANGED <<wavVars, received, exhausted, chunk, inline_data, audio_data,
                 chunk_count, output_file, files>>

\* Lines 239-241: the bytes become the WAV container, the path is kept.
AsWav(w, blob, data, path) ==
  [exc |-> w.exc, inline_data |-> blob, path |-> path,
   bytes |-> IF w.exc = NoExc THEN w.bytes ELSE data]

\* Lines 237-243, inline_data being blob.
WithFormat(blob, file_extension, data, path) ==
  IF file_extension = None
  THEN AsWav(convert_to_wav(data, The(blob).mime_type), blob, data, path)
  ELSE [exc |-> NoExc, inline_data |-> blob,
        path |-> Replace(path, WavExt, The(file_extension)), bytes |-> data]

\* Lines 236-243, got being the outcome of line 236's expression: the
\* exception that reaches the except clause, inline_data, the path and the
\* bytes to save.
WithLast(got, cur_inline, data, path) ==
  IF got.exc # NoExc
  THEN [exc |-> got.exc, inline_data |-> cur_inline, path |-> path, bytes |-> data]
  ELSE IF got.val = None
  THEN [exc |-> "AttributeError", inline_data |-> None, path |-> path,
        bytes |-> data]
  ELSE WithFormat(got.val, guess_extension(The(got.val).mime_type), data, path)

\* Variant of AfterLoop: line 236 left out, inline_data is the one the loop
\* bound last.
AfterLoop_Stale(last, cur_inline, data, path) ==
  WithLast([exc |-> NoExc, val |-> cur_inline], cur_inline, data, path)

AfterLoop(last, cur_inline, data, path) ==
  WithLast(LastInlineData(last), cur_inline, data, path)

\* Lines 244-246 and the except clause, r being what AfterLoop computed;
\* write_ok is whether save_binary_file can write the file.
SaveAndReturn(r, write_ok) ==
  /\ inline_data' = r.inline_data
  /\ IF r.exc # NoExc
     THEN /\ caught' = r.exc
          /\ ret' = "False"
          /\ UNCHANGED <<audio_data, output_file, files>>
     ELSE /\ audio_data' = r.bytes
          /\ output_file' = r.path
          /\ IF write_ok
             THEN /\ files' = Append(files, [name |-> r.path, data |-> r.bytes])
                  /\ ret' = "True"
                  /\ caught' = NoExc
             ELSE /\ files' = files
                  /\ ret' = "False"
                  /\ caught' = "OSError"

\* The stream is exhausted: the code after the loop, to the return.
Finish(write_ok) ==
  /\ ret = "running"
  /\ exhausted' = TRUE
  /\ IF audio_data # <<>>
     THEN SaveAndReturn(AfterLoop(The(chunk), inline_data, audio_data, output_file),
                        write_ok)
     ELSE /\ ret' = "False"
          /\ UNCHANGED <<inline_data, audio_data, output_file, files, caught>>
  /\ UNCHANGED <<wavVars, received, chunk, chunk_count>>

Next ==
  \/ \E c \in Chunks : ReceiveChunk(c)
  \/ StreamRaises
  \/ \E write_ok \in BOOLEAN : Finish(write_ok)

Spec == Init /\ [][Next]_vars

\* ------------------------------------------- properties of the WAV encoder

\* The number a little-endian byte string encodes.
RECURSIVE DecodeLE(_)
DecodeLE(b) == IF b = <<>> THEN 0 ELSE Head(b) + 256 * DecodeLE(Tail(b))

\* The n bytes at offset off (from 0) of a byte string.
FieldAt(bytes, off, n) == SubSeq(bytes, off + 1, off + n)
U16At(bytes, off) == DecodeLE(FieldAt(bytes, off, 2))
U32At(bytes, off) == DecodeLE(FieldAt(bytes, off, 4))

\* convert_to_wav was called and returned a buffer.
Returned == wav # NoneVal /\ wav.exc = NoExc
\* parse_audio_mime_type was called and returned a pair.
Parsed == params # NoneVal /\ params.exc = NoExc

\* Descriptors of the examples.
D_L24_48000 == AudioL \o <<"2","4",";">> \o RateEq \o <<"4","8","0","0","0">>
D_Rate44100 == RateEq \o <<"4","4","1","0","0">>
D_Garbage   == <<"g","a","r","b","a","g","e">>
D_L16_Rate  == AudioL \o <<"1","6",";">> \o RateEq
D_L12       == AudioL \o <<"1","2">>

C2_ConstantFields ==
  Returned =>
    /\ FieldAt(wav.bytes, 0, 4) = <<82, 73, 70, 70>>
    /\ FieldAt(wav.bytes, 8, 4) = <<87, 65, 86, 69>>
    /\ FieldAt(wav.bytes, 12, 4) = <<102, 109, 116, 32>>
    /\ FieldAt(wav.bytes, 36, 4) = <<100, 97, 116, 97>>
    /\ U32At(wav.bytes, 16) = 16
    /\ U16At(wav.bytes, 20) = 1
    /\ U16At(wav.bytes, 22) = 1

C2_Witness ==
  /\ Returned
  /\ in_audio # <<>>
  /\ U32At(wav.bytes, 24) = 48000
  /\ U16At(wav.bytes, 34) = 12

\* C3: in every buffer convert_to_wav returns ChunkSize (bytes 4-7) is
\* 36 + dataSize and Subchunk2Size (bytes 40-43) is dataSize, the length of
\* the payload.
C3_DeclaredSizes ==
  Returned =>
    /\ U32At(wav.bytes, 4) = 36 + Len(in_audio)
    /\ U32At(wav.bytes, 40) = Len(in_audio)

C3_Witness == Returned /\ Len(in_audio) = 2 /\ U32At(wav.bytes, 4) = 38

\* C4: the BitsPerSample (offset 34), SampleRate (offset 24) and
\* Subchunk2Size (offset 40) fields of the header convert_to_wav produced
\* decode to the bits per sample and the rate parse_audio_mime_type returned
\* for the descriptor and to the length of the payload.
C4_RoundTrip ==
  (Returned /\ Parsed) =>
    /\ U16At(wav.bytes, 34) = params.bits_per_sample
    /\ U32At(wav.bytes, 24) = params.rate
    /\ U32At(wav.bytes, 40) = Len(in_audio)

C4_Witness ==
  /\ Returned
  /\ Parsed
  /\ params.bits_per_sample = 24
  /\ params.rate = 44100
  /\ Len(in_audio) = 1

\* The parsed values and the sizes fit the fields struct.pack puts them in.
FitsHeader(p, data_size) ==
  /\ 0 <= p.bits_per_sample /\ p.bits_per_sample <= 65535
  /\ 0 <= p.rate /\ p.rate \div 65536 <= 65535
  /\ (p.rate * (p.bits_per_sample \div 8)) \div 65536 <= 65535
  /\ (36 + data_size) \div 65536 <= 65535

\* C5 as stated: neither parse_audio_mime_type nor convert_to_wav raises,
\* whatever the descriptor and the payload.
C5_NeverRaises ==
  /\ (params # NoneVal => params.exc = NoExc)
  /\ (wav # NoneVal => wav.exc = NoExc)

\* C5, amended: parse_audio_mime_type never raises; convert_to_wav returns a
\* buffer when the parsed values fit the header's fields, and otherwise the
\* only exception is struct.pack's struct.error.
C5_TotalWhereFieldsFit ==
  /\ (params # NoneVal => params.exc = NoExc)
  /\ (wav # NoneVal =>
        /\ wav.exc \in {NoExc, "struct.error"}
        /\ (wav.exc = NoExc <=>
              FitsHeader(parse_audio_mime_type(in_mime), Len(in_audio))))

\* An unparseable rate next to a parseable bit depth, and a buffer returned.
C5_Witness ==
  /\ Returned
  /\ Parsed
  /\ in_mime = AudioL \o <<"2","4",";">> \o RateEq \o <<"4","x">>
  /\ params.rate = 24000

\* The segments of a descriptor, trimmed.
TrimmedSegments(m) ==
  LET parts == Split(m, ";") IN [i \in 1..Len(parts) |-> Strip(parts[i])]

\* The integer a segment gives for the key (prefix), NoExc only when the key
\* matches and the rest parses as an integer.
KeyedInt(seg, keyMatches, keyLen) ==
  IF Len(seg) >= keyLen /\ keyMatches
  THEN PyInt(SubSeq(seg, keyLen + 1, Len(seg)))
  ELSE [exc |-> "NoMatch", val |-> 0]

RateOfSegment(seg) ==
  KeyedInt(seg, Len(seg) >= 5 /\ Lower(SubSeq(seg, 1, 5)) = RateEq, 5)

BitsOfSegment(seg) ==
  KeyedInt(seg, Len(seg) >= 7 /\ SubSeq(seg, 1, 7) = AudioL, 7)

\* The value of the last segment for which Of gives an integer, else dflt.
LastGood(segs, Of(_), dflt) ==
  LET good == {i \in 1..Len(segs) : Of(segs[i]).exc = NoExc}
  IN  IF good = {} THEN dflt
      ELSE Of(segs[CHOOSE i \in good : \A j \in good : j <= i]).val

C7_DerivedFields ==
  /\ (Returned /\ Parsed) =>
       /\ U16At(wav.bytes, 32) = params.bits_per_sample \div 8
       /\ U32At(wav.bytes, 28) = params.rate * U16At(wav.bytes, 32)
       /\ U16At(wav.bytes, 34) = params.bits_per_sample
  /\ (wav # NoneVal /\ in_mime = D_L12) =>
       /\ wav.exc = NoExc
       /\ U16At(wav.bytes, 32) = 1
       /\ U16At(wav.bytes, 34) = 12

C7_Witness ==
  /\ Returned
  /\ Parsed
  /\ params.bits_per_sample = 12
  /\ params.rate = 48000
  /\ U32At(wav.bytes, 28) = 48000

\* ------------------------------------------- properties of generate_audio

\* The bytes a chunk carries, <<>> when any link down to its data is None.
CarriedBytes(c) ==
  IF c.candidates = None THEN <<>>
  ELSE LET content == c.candidates[1].content
       IN  IF content = None THEN <<>>
           ELSE IF content[1].parts = None THEN <<>>
           ELSE LET blob == content[1].parts[1].inline_data
                IN  IF blob = None THEN <<>>
                    ELSE IF blob[1].data = None THEN <<>>
                    ELSE blob[1].data[1]

\* The chunks of a stream that carry non-empty data, concatenated in order.
RECURSIVE Concatenated(_)
Concatenated(stream) ==
  IF stream = <<>> THEN <<>>
  ELSE CarriedBytes(Head(stream)) \o Concatenated(Tail(stream))

\* The bytes of a saved file are the whole accumulation, raw or behind a
\* 44-byte header.
HoldsAll(data, acc) ==
  \/ data = acc
  \/ Len(data) = 44 + Len(acc) /\ SubSeq(data, 45, Len(data)) = acc

\* C8: while the stream runs the accumulated audio is the concatenation, in
\* arrival order, of the data of the chunks received so far that carry
\* non-empty data; a file is written at most once, only once the stream is
\* exhausted, and it holds the whole accumulation.
C8_OrderedAccumulation ==
  /\ ~exhausted => audio_data = Concatenated(received)
  /\ Len(files) <= 1
  /\ files # <<>> =>
       /\ exhausted
       /\ HoldsAll(files[1].data, Concatenated(received))
       /\ audio_data = files[1].data

C8_Witness ==
  /\ files # <<>>
  /\ Len(received) = 3
  /\ received[2].candidates = None
  /\ Concatenated(received) = <<2, 3, 1>>

\* The inline data a chunk holds, None when any link down to it is None.
DeclaredBlob(c) ==
  IF c.candidates = None THEN None
  ELSE LET content == c.candidates[1].content
       IN  IF content = None THEN None
           ELSE IF content[1].parts = None THEN None
           ELSE content[1].parts[1].inline_data

\* The MIME type the last chunk received declares.
LastMime == DeclaredBlob(received[Len(received)])[1].mime_type

\* Bits per sample and rate the two PCM MIME types of the streams declare.
DeclaredBits(m) == IF m = MimeL24 THEN 24 ELSE 16
DeclaredRate(m) == IF m = MimeL24 THEN 48000 ELSE 24000

\* C9: a file that is saved has the format the last chunk received declares:
\* with a MIME type of a known extension the path gets that extension and
\* the bytes stay raw, otherwise the path is kept and the header carries the
\* bits per sample and the rate of that MIME type, whatever the earlier
\* chunks declared.
C9_LastChunkFormat ==
  files # <<>> =>
    /\ DeclaredBlob(received[Len(received)]) # None
    /\ inline_data = DeclaredBlob(received[Len(received)])
    /\ IF LastMime = MimeMpeg
       THEN /\ files[1].name = <<"a">> \o Mp3Ext \o <<"/","o">> \o Mp3Ext
            /\ files[1].data = Concatenated(received)
       ELSE /\ files[1].name = OutputFile
            /\ U16At(files[1].data, 34) = DeclaredBits(LastMime)
            /\ U32At(files[1].data, 24) = DeclaredRate(LastMime)

\* The last chunk declares a type, carries no data, and the data came with
\* another type.
C9_Witness ==
  /\ files # <<>>
  /\ Len(received) = 2
  /\ CarriedBytes(received[1]) # <<>>
  /\ DeclaredBlob(received[1])[1].mime_type = MimeL16
  /\ CarriedBytes(received[2]) = <<>>
  /\ LastMime = MimeL24

\* Some chunk of the stream carried non-empty data.
SomeAudio == \E i \in 1..Len(received) : CarriedBytes(received[i]) # <<>>

\* C10: once a stream is exhausted (and the file system takes the write),
\* one file is saved and True returned when some chunk carried data,
\* whatever the other chunks are; no file is saved and False returned when
\* none did; True is returned only with the file saved.
C10_SavedIffAudio ==
  /\ (exhausted /\ caught # "OSError") =>
       /\ SomeAudio => (Len(files) = 1 /\ ret = "True")
       /\ ~SomeAudio => (files = <<>> /\ ret = "False")
  /\ ret = "True" => Len(files) = 1

====
